---- MODULE Spec2Model ----
(***************************************************************************)
(* A model of ListCrdt / TextCrdt (src/src/list_crdt.ts,                   *)
(* src/src/text_crdt.ts): a hybrid op-based / state-based list CRDT built  *)
(* on the list-positions library.  The two classes are the same state      *)
(* machine over different item types; the model follows ListCrdt and the   *)
(* line numbers of list_crdt.ts.                                           *)
(***************************************************************************)
EXTENDS Integers, Sequences, FiniteSets, TLC

\* ------------------------------------------------------------------------
\* Bounds of the model.
\* ------------------------------------------------------------------------
MaxInserts == 3     \* insertAt calls, over all replicas
MaxDeletes == 1     \* deleteAt calls, over all replicas
MaxVals == 2        \* values carried by one insertAt / positions of one deleteAt
MaxMergeInserts == 2 \* insertAt calls, where snapshots are saved and loaded

Replicas == {"A", "B", "C"}
\* The replicas that perform local edits; "C" only receives and loads.
Writers == {"A", "B"}

VARIABLES
  bunches,  \* the bunches ever created: bunchID -> parentID, offset, creator, createdCounter
  nins,     \* number of insertAt calls made so far
  ndel,     \* number of deleteAt calls made so far
  known,    \* known[r]: bunchIDs registered in r's Order (this.list.order)
  list,     \* list[r]: this.list, a function from the present Positions to their values
  seen,     \* seen[r]: this.seen, a set of Positions
  pending,  \* pending[r]: this.pending, bunchID -> messages in insertion order
  msgs,     \* every message handed to send() so far (the network may deliver any of them, any number of times)
  got,      \* got[r]: the messages r has originated or has taken in a receive() that returned
  applied,  \* applied[r]: the Set messages r has emitted or processed up to list.set
  dels,     \* dels[r]: the Positions r has deleted (deleteAt, a received Delete, a loaded tombstone)
  snap,     \* the last value returned by a save(), kept by the application
  snapDels, \* the Positions the saving replica had deleted when it saved snap
  threw     \* whether the last operation ended by throwing

vars == <<bunches, nins, ndel, known, list, seen, pending, msgs, got, applied, dels, snap, snapDels, threw>>

\* ------------------------------------------------------------------------
\* Positions, bunches and messages.
\* ------------------------------------------------------------------------
ROOT == 0

Pos(b, i) == [bunchID |-> b, innerIndex |-> i]
MIN_POSITION == Pos(ROOT, 0)
MAX_POSITION == Pos(ROOT, 1)

\* A message without meta carries NoMeta; a Delete carries NoPos as startPos.
NoMeta == [bunchID |-> -1, parentID |-> -1, offset |-> 0]
NoPos == Pos(-1, 0)

SetMsg(startPos, values, meta) ==
  [type |-> "set", startPos |-> startPos, values |-> values, meta |-> meta, poss |-> <<>>]

DeleteMsg(poss) ==
  [type |-> "delete", startPos |-> NoPos, values |-> <<>>, meta |-> NoMeta, poss |-> poss]

\* The Positions startPos, startPos+1, ... of a run of count Positions in one bunch.
Run(startPos, count) ==
  {Pos(startPos.bunchID, startPos.innerIndex + k) : k \in 0..(count - 1)}

MsgPositions(m) ==
  IF m.type = "set" THEN Run(m.startPos, Len(m.values)) ELSE {m.poss[k] : k \in 1..Len(m.poss)}

BunchIDs == DOMAIN bunches

\* order.getNode(bunchID) !== undefined, at a replica with registered bunches k.
IsKnown(k, b) == b = ROOT \/ b \in k

\* ------------------------------------------------------------------------
\* The total order on Positions (list-positions' Order): in-order traversal of
\* the tree of bunches.  A bunch with offset 2i is a left child of its parent's
\* Position i, one with offset 2i+1 a right child; siblings go by bunchID.
\* ------------------------------------------------------------------------
SetToSeq(S) ==
  LET RECURSIVE go(_)
      go(T) == IF T = {} THEN <<>>
               ELSE LET x == CHOOSE y \in T : \A z \in T : y <= z
                    IN <<x>> \o go(T \ {x})
  IN go(S)

RECURSIVE TraverseBunch(_)
TraverseKids(b, o) ==
  LET kids == SetToSeq({c \in BunchIDs : bunches[c].parentID = b /\ bunches[c].offset = o})
      RECURSIVE cat(_)
      cat(k) == IF k > Len(kids) THEN <<>> ELSE TraverseBunch(kids[k]) \o cat(k + 1)
  IN cat(1)

TraverseBunch(b) ==
  LET RECURSIVE at(_)
      at(i) == IF i >= bunches[b].createdCounter THEN <<>>
               ELSE TraverseKids(b, 2 * i) \o <<Pos(b, i)>> \o TraverseKids(b, 2 * i + 1) \o at(i + 1)
  IN at(0)

\* Every Position ever allocated, in list order.
AllPositions == TraverseKids(ROOT, 1)

\* The present Positions of a list value l, in list order (list.positions()).
Positions(l) == SelectSeq(AllPositions, LAMBDA p : p \in DOMAIN l)

\* slice(): the present values in list order.
SliceOf(l) == LET ps == Positions(l) IN [k \in 1..Len(ps) |-> l[ps[k]]]
Slice(r) == SliceOf(list[r])

\* Is Position q in the subtree of right children of Position p?
RECURSIVE IsDescendant(_, _)
IsDescendant(q, p) ==
  IF q.bunchID = ROOT \/ q.bunchID = p.bunchID THEN FALSE
  ELSE LET m == bunches[q.bunchID] IN
       IF m.parentID = p.bunchID
         THEN p.bunchID = ROOT \/ m.offset = 2 * p.innerIndex + 1
         ELSE IsDescendant(Pos(m.parentID, m.offset \div 2), p)

\* ------------------------------------------------------------------------
\* Initial state: the state after the constructors (lines 58-62).
\* ------------------------------------------------------------------------
\* No save() yet.
NoSnap == [taken |-> FALSE, order |-> {}, list |-> <<>>, seen |-> {}]

Init ==
  /\ bunches = <<>>
  /\ nins = 0
  /\ ndel = 0
  /\ known = [r \in Replicas |-> {}]
  /\ list = [r \in Replicas |-> <<>>]
  /\ seen = [r \in Replicas |-> {}]
  /\ pending = [r \in Replicas |-> <<>>]
  /\ msgs = {}
  /\ got = [r \in Replicas |-> {}]
  /\ applied = [r \in Replicas |-> {}]
  /\ dels = [r \in Replicas |-> {}]
  /\ snap = NoSnap
  /\ snapDels = {}
  /\ threw = FALSE

\* ------------------------------------------------------------------------
\* The value store (list-positions' List) and the seen tracker (PositionSet).
\* ------------------------------------------------------------------------
\* list.set(startPos, ...values): writes the run of Positions starting at startPos.
ListSet(l, startPos, values) ==
  LET run == Run(startPos, Len(values))
  IN [p \in (DOMAIN l) \cup run |->
        IF p \in run THEN values[p.innerIndex - startPos.innerIndex + 1] ELSE l[p]]

\* list.delete(pos)
ListDelete(l, pos) == [p \in (DOMAIN l) \ {pos} |-> l[p]]

\* seen.add(startPos, count = 1)
SeenAdd(s, startPos, count) == s \cup Run(startPos, count)

\* The seen guard of receive (line 120): this.seen.has(message.startPos).
SeenGuard(s, m) == m.startPos \in s

\* insertAt that records nothing as seen.
InsertSeenNothing(s, pos, values) == s

\* What insertAt records as seen (line 82): this.seen.add(pos).
InsertSeen(s, pos, values) == SeenAdd(s, pos, 1)

\* ------------------------------------------------------------------------
\* Allocation of new Positions (list-positions' Order.createPositions, as
\* called by List.insertAt on line 81) between the neighbours prevPos and
\* nextPos, by replica r.  Returns the start Position, the new bunch's meta
\* (NoMeta when r's own bunch is extended) and the new value of bunches.
\* ------------------------------------------------------------------------
NewBunch(r, parentID, offset, count) ==
  LET id == Len(bunches) + 1
  IN [startPos |-> Pos(id, 0),
      meta |-> [bunchID |-> id, parentID |-> parentID, offset |-> offset],
      bunches |-> Append(bunches, [parentID |-> parentID, offset |-> offset,
                                   creator |-> r, createdCounter |-> count])]

CreatePositions(r, prevPos, nextPos, count) ==
  IF IsDescendant(nextPos, prevPos)
    THEN NewBunch(r, nextPos.bunchID, 2 * nextPos.innerIndex, count)
  ELSE IF /\ prevPos.bunchID # ROOT
          /\ bunches[prevPos.bunchID].creator = r
          /\ prevPos.innerIndex = bunches[prevPos.bunchID].createdCounter - 1
    THEN [startPos |-> Pos(prevPos.bunchID, prevPos.innerIndex + 1),
          meta |-> NoMeta,
          bunches |-> [bunches EXCEPT ![prevPos.bunchID].createdCounter = @ + count]]
  ELSE NewBunch(r, prevPos.bunchID, 2 * prevPos.innerIndex + 1, count)

\* The values of the next insertAt: fresh, so that every Position's value is its own.
RECURSIVE Allocated(_)
Allocated(b) == IF b = 0 THEN 0 ELSE bunches[b].createdCounter + Allocated(b - 1)
FreshValues(count) == [k \in 1..count |-> Allocated(Len(bunches)) + k]

\* ------------------------------------------------------------------------
\* receive (lines 99-171), on the state of one replica:
\*   [known, list, seen, pending, applied, dels, threw, drained, reprocessed]
\* drained and reprocessed record, for one call, the buckets that the
\* unblocking cascade removed and the messages it handed back to receive.
\* ------------------------------------------------------------------------
ReplicaState(r) ==
  [known |-> known[r], list |-> list[r], seen |-> seen[r], pending |-> pending[r],
   applied |-> applied[r], dels |-> dels[r], threw |-> FALSE,
   drained |-> {}, reprocessed |-> <<>>]

\* addToPending with an array for a bucket: a repeated message is pushed again.
AddToPendingArray(pend, bunchID, m) ==
  IF bunchID \in DOMAIN pend
    THEN [pend EXCEPT ![bunchID] = Append(@, m)]
    ELSE (bunchID :> <<m>>) @@ pend

\* addToPending (lines 164-171); a bucket is a JS Set: insertion order, no repeats.
AddToPending(pend, bunchID, m) ==
  IF bunchID \in DOMAIN pend
    THEN IF \E k \in 1..Len(pend[bunchID]) : pend[bunchID][k] = m
           THEN pend
           ELSE [pend EXCEPT ![bunchID] = Append(@, m)]
    ELSE (bunchID :> <<m>>) @@ pend

\* this.pending.delete(bunchID)
PendingDelete(pend, bunchID) == [b \in (DOMAIN pend) \ {bunchID} |-> pend[b]]

\* case "delete" without the getNode test of line 110: list.has throws for a
\* Position of an unregistered bunch.
RECURSIVE ReceiveDeleteUnguarded(_, _, _)
ReceiveDeleteUnguarded(s, poss, k) ==
  IF k > Len(poss) \/ s.threw THEN s
  ELSE LET pos == poss[k]
           s1 == [s EXCEPT !.seen = SeenAdd(@, pos, 1), !.dels = @ \cup {pos}]
           s2 == IF ~IsKnown(s1.known, pos.bunchID) THEN [s1 EXCEPT !.threw = TRUE]
                 ELSE IF pos \in DOMAIN s1.list THEN [s1 EXCEPT !.list = ListDelete(@, pos)]
                 ELSE s1
       IN ReceiveDeleteUnguarded(s2, poss, k + 1)

\* case "delete" (lines 101-116), from the k-th position of the message on.
RECURSIVE ReceiveDelete(_, _, _)
ReceiveDelete(s, poss, k) ==
  IF k > Len(poss) THEN s
  ELSE LET pos == poss[k]
           s1 == [s EXCEPT !.seen = SeenAdd(@, pos, 1), !.dels = @ \cup {pos}]
           s2 == IF IsKnown(s1.known, pos.bunchID) /\ pos \in DOMAIN s1.list
                   THEN [s1 EXCEPT !.list = ListDelete(@, pos)]
                   ELSE s1
       IN ReceiveDelete(s2, poss, k + 1)

RECURSIVE Receive(_, _)

\* for (const msg2 of unblocked) this.receive(msg2)  (line 156)
RECURSIVE ReceiveEach(_, _, _)
ReceiveEach(s, unblocked, k) ==
  IF k > Len(unblocked) \/ s.threw THEN s
  ELSE ReceiveEach(Receive(s, unblocked[k]), unblocked, k + 1)

\* The unblocking cascade without this.pending.delete (line 153).
UnblockKeepBucket(s, m) ==
  IF m.meta # NoMeta /\ m.meta.bunchID \in DOMAIN s.pending
    THEN ReceiveEach([s EXCEPT !.drained = @ \cup {m.meta.bunchID},
                               !.reprocessed = @ \o s.pending[m.meta.bunchID]],
                     s.pending[m.meta.bunchID], 1)
    ELSE s

\* The unblocking cascade (lines 149-158).
Unblock(s, m) ==
  IF m.meta # NoMeta /\ m.meta.bunchID \in DOMAIN s.pending
    THEN ReceiveEach([s EXCEPT !.pending = PendingDelete(@, m.meta.bunchID),
                               !.drained = @ \cup {m.meta.bunchID},
                               !.reprocessed = @ \o s.pending[m.meta.bunchID]],
                     s.pending[m.meta.bunchID], 1)
    ELSE s

\* Processing that writes only the first value of the message.
ProcessSetOne(s, m) ==
  IF ~IsKnown(s.known, m.startPos.bunchID)
    THEN [s EXCEPT !.threw = TRUE]
    ELSE Unblock([s EXCEPT !.list = ListSet(@, m.startPos, <<m.values[1]>>),
                           !.seen = SeenAdd(@, m.startPos, Len(m.values)),
                           !.applied = @ \cup {m}], m)

\* Processing that writes the values without recording their Positions as seen.
ProcessSetUnseen(s, m) ==
  IF ~IsKnown(s.known, m.startPos.bunchID)
    THEN [s EXCEPT !.threw = TRUE]
    ELSE Unblock([s EXCEPT !.list = ListSet(@, m.startPos, m.values),
                           !.applied = @ \cup {m}], m)

\* Lines 144-158: dependencies are satisfied, process the message.
\* list.set throws when the Position's bunch is not registered.
ProcessSet(s, m) ==
  IF ~IsKnown(s.known, m.startPos.bunchID)
    THEN [s EXCEPT !.threw = TRUE]
    ELSE Unblock([s EXCEPT !.list = ListSet(@, m.startPos, m.values),
                           !.seen = SeenAdd(@, m.startPos, Len(m.values)),
                           !.applied = @ \cup {m}], m)

\* case "set" (lines 117-160)
ReceiveSet(s, m) ==
  IF SeenGuard(s.seen, m) THEN s
  ELSE IF m.meta # NoMeta
    THEN IF ~IsKnown(s.known, m.meta.parentID)
           THEN [s EXCEPT !.pending = AddToPending(@, m.meta.parentID, m)]
           ELSE LET s1 == [s EXCEPT !.known = @ \cup {m.meta.bunchID}]
                IN IF ~IsKnown(s1.known, m.startPos.bunchID)
                     THEN [s1 EXCEPT !.pending = AddToPending(@, m.startPos.bunchID, m)]
                     ELSE ProcessSet(s1, m)
    ELSE ProcessSet(s, m)

Receive(s, m) ==
  IF m.type = "delete" THEN ReceiveDelete(s, m.poss, 1) ELSE ReceiveSet(s, m)

\* ------------------------------------------------------------------------
\* save (lines 173-179) and load (lines 181-211).
\* ------------------------------------------------------------------------
SavedState(s) == [taken |-> TRUE, order |-> s.known, list |-> s.list, seen |-> s.seen]

\* The loop body of the merge path that copies otherList's first value
\* (getAt(0)) instead of the value at pos.
MergePosFirstValue(s, sv, pos) ==
  IF pos \notin s.seen
    THEN [s EXCEPT !.list = IF pos \in DOMAIN sv.list
                              THEN ListSet(@, pos, <<SliceOf(sv.list)[1]>>) ELSE @,
                   !.seen = SeenAdd(@, pos, 1)]
    ELSE IF pos \notin DOMAIN sv.list
           THEN [s EXCEPT !.list = ListDelete(@, pos)]
           ELSE s

\* The loop body of the merge path (lines 199-208) for one Position of otherSeen.
MergePos(s, sv, pos) ==
  IF pos \notin s.seen
    THEN [s EXCEPT !.list = IF pos \in DOMAIN sv.list
                              THEN ListSet(@, pos, <<sv.list[pos]>>) ELSE @,
                   !.seen = SeenAdd(@, pos, 1)]
    ELSE IF pos \notin DOMAIN sv.list
           THEN [s EXCEPT !.list = ListDelete(@, pos)]
           ELSE s

\* for (const pos of otherSeen): the Positions of otherSeen in list order.
RECURSIVE MergeEach(_, _, _, _)
MergeEach(s, sv, poss, k) ==
  IF k > Len(poss) THEN s ELSE MergeEach(MergePos(s, sv, poss[k]), sv, poss, k + 1)

\* otherSeen.load(savedState.seen) (line 194): an Outline over otherList.order
\* cannot hold a Position whose bunch that Order does not know.
OutlineLoads(sv) == \A p \in sv.seen : IsKnown(sv.order, p.bunchID)

\* load that merges Position by Position even into a replica that has seen nothing.
LoadMergeOnly(s, sv) ==
  LET tomb == [s EXCEPT !.dels = @ \cup (sv.seen \ DOMAIN sv.list)]
  IN IF ~OutlineLoads(sv)
       THEN [s EXCEPT !.threw = TRUE]
     ELSE MergeEach([tomb EXCEPT !.known = @ \cup sv.order], sv,
                    SelectSeq(AllPositions, LAMBDA p : p \in sv.seen), 1)

\* load that overwrites whatever the replica holds, without the test of line 182.
LoadOverwrite(s, sv) ==
  [s EXCEPT !.dels = @ \cup (sv.seen \ DOMAIN sv.list),
            !.known = @ \cup sv.order, !.list = sv.list, !.seen = sv.seen]

\* load (lines 181-211): the fast path of lines 182-187, else the merge.
Load(s, sv) ==
  LET tomb == [s EXCEPT !.dels = @ \cup (sv.seen \ DOMAIN sv.list)]
  IN IF s.seen = {}
       THEN [tomb EXCEPT !.known = @ \cup sv.order, !.list = sv.list, !.seen = sv.seen]
     ELSE IF ~OutlineLoads(sv)
       THEN [s EXCEPT !.threw = TRUE]
     ELSE MergeEach([tomb EXCEPT !.known = @ \cup sv.order], sv,
                    SelectSeq(AllPositions, LAMBDA p : p \in sv.seen), 1)

\* ------------------------------------------------------------------------
\* The operations of a replica, as actions.
\* ------------------------------------------------------------------------
\* The new state s of replica r, with everything else as given.
Install(r, s) ==
  /\ known' = [known EXCEPT ![r] = s.known]
  /\ list' = [list EXCEPT ![r] = s.list]
  /\ seen' = [seen EXCEPT ![r] = s.seen]
  /\ pending' = [pending EXCEPT ![r] = s.pending]
  /\ applied' = [applied EXCEPT ![r] = s.applied]
  /\ dels' = [dels EXCEPT ![r] = s.dels]
  /\ threw' = s.threw

\* insertAt(index, ...values) (lines 80-90)
InsertAt(r, index, count) ==
  LET ps == Positions(list[r])
      prevPos == IF index = 0 THEN MIN_POSITION ELSE ps[index]
      nextPos == IF index = Len(ps) THEN MAX_POSITION ELSE ps[index + 1]
      new == CreatePositions(r, prevPos, nextPos, count)
      values == FreshValues(count)
      message == SetMsg(new.startPos, values, new.meta)
      s == ReplicaState(r)
  IN /\ index \in 0..Len(ps)
     /\ nins' = nins + 1
     /\ bunches' = new.bunches
     /\ Install(r, [s EXCEPT !.known = IF new.meta = NoMeta THEN @ ELSE @ \cup {new.meta.bunchID},
                             !.list = ListSet(@, new.startPos, values),
                             !.seen = InsertSeen(@, new.startPos, values),
                             !.applied = @ \cup {message}])
     /\ msgs' = msgs \cup {message}
     /\ got' = [got EXCEPT ![r] = @ \cup {message}]
     /\ UNCHANGED <<ndel, snap, snapDels>>

\* A deleteAt loop that stops after the first Position.
RECURSIVE ListDeleteFirst(_, _, _)
ListDeleteFirst(l, poss, k) ==
  IF k > Len(poss) \/ k > 1 THEN l ELSE ListDeleteFirst(ListDelete(l, poss[k]), poss, k + 1)

\* deleteAt(index, count) (lines 92-97)
RECURSIVE ListDeleteAll(_, _, _)
ListDeleteAll(l, poss, k) ==
  IF k > Len(poss) THEN l ELSE ListDeleteAll(ListDelete(l, poss[k]), poss, k + 1)

DeleteAt(r, index, count) ==
  LET ps == Positions(list[r])
      poss == SubSeq(ps, index + 1, index + count)
      message == DeleteMsg(poss)
      s == ReplicaState(r)
  IN /\ index >= 0 /\ count >= 1 /\ index + count <= Len(ps)
     /\ ndel' = ndel + 1
     /\ Install(r, [s EXCEPT !.list = ListDeleteAll(@, poss, 1),
                             !.dels = @ \cup MsgPositions(message)])
     /\ msgs' = msgs \cup {message}
     /\ got' = [got EXCEPT ![r] = @ \cup {message}]
     /\ UNCHANGED <<bunches, nins, snap, snapDels>>

\* receive(message), for any message ever sent, any number of times
ReceiveMessage(r, m) ==
  /\ m \in msgs
  /\ Install(r, Receive(ReplicaState(r), m))
  /\ got' = [got EXCEPT ![r] = IF Receive(ReplicaState(r), m).threw THEN @ ELSE @ \cup {m}]
  /\ UNCHANGED <<bunches, nins, ndel, msgs, snap, snapDels>>

\* save() (lines 173-179); the application keeps the returned value
Save(r) ==
  /\ snap' = SavedState(ReplicaState(r))
  /\ snapDels' = dels[r]
  /\ threw' = FALSE
  /\ UNCHANGED <<bunches, nins, ndel, known, list, seen, pending, msgs, got, applied, dels>>

\* load(savedState) (lines 181-211), of the value last saved
LoadSnap(r) ==
  /\ snap.taken
  /\ Install(r, Load(ReplicaState(r), snap))
  /\ UNCHANGED <<bunches, nins, ndel, msgs, got, snap, snapDels>>

\* ------------------------------------------------------------------------
\* Specifications.
\* ------------------------------------------------------------------------
MaxIndex == MaxInserts * MaxVals

DoInsert(limit) ==
  \E r \in Writers : \E index \in 0..MaxIndex : \E count \in 1..MaxVals :
    nins < limit /\ InsertAt(r, index, count)
DoDelete ==
  \E r \in Writers : \E index \in 0..MaxIndex : \E count \in 1..MaxVals :
    ndel < MaxDeletes /\ DeleteAt(r, index, count)
DoReceive(R) == \E r \in R : \E m \in msgs : ReceiveMessage(r, m)
DoSave(R) == \E r \in R : Save(r)
DoLoad(R) == \E r \in R : LoadSnap(r)

\* Message passing between the two writers.
NextOps == DoInsert(MaxInserts) \/ DoDelete \/ DoReceive(Writers)
SpecOps == Init /\ [][NextOps]_vars

\* Message passing and state-based merging.
Next == DoInsert(MaxMergeInserts) \/ DoDelete \/ DoReceive(Writers) \/ DoSave(Writers) \/ DoLoad(Writers)
Spec == Init /\ [][Next]_vars

\* ------------------------------------------------------------------------
\* Properties.
\* ------------------------------------------------------------------------
SetMsgs == {m \in msgs : m.type = "set"}
DeleteMsgs == {m \in msgs : m.type = "delete"}

\* The messages in the buckets of a pending buffer.
Buffered(pend) == UNION {{pend[b][k] : k \in 1..Len(pend[b])} : b \in DOMAIN pend}

\* The part of a replica's state that the program holds.
Content(s) == [known |-> s.known, list |-> s.list, seen |-> s.seen, pending |-> s.pending]

\* C1: two replicas that have received or originated the same set of messages
\* return equal sequences from slice().
C1_Convergence ==
  \A r, q \in Writers : got[r] = got[q] => Slice(r) = Slice(q)

\* C2: for a Set s and a Delete d naming some of the positions of s, a replica
\* that has received neither ends with the same value store whether it receives
\* d then s or s then d: exactly the positions of s that d does not name.
C2_DeleteSetCommute ==
  \A r \in Writers : \A s \in SetMsgs : \A d \in DeleteMsgs :
    ( /\ MsgPositions(d) \subseteq MsgPositions(s)
      /\ s \notin got[r] /\ d \notin got[r]
      /\ MsgPositions(s) \cap seen[r] = {}
      /\ IF s.meta = NoMeta THEN IsKnown(known[r], s.startPos.bunchID)
                            ELSE IsKnown(known[r], s.meta.parentID) )
    => LET ds == Receive(Receive(ReplicaState(r), d), s)
           sd == Receive(Receive(ReplicaState(r), s), d)
       IN /\ ds.list = sd.list
          /\ (DOMAIN ds.list) \cap MsgPositions(s) = MsgPositions(s) \ MsgPositions(d)

\* C3: a position that a replica has deleted (by deleteAt, by a received Delete,
\* or by loading a snapshot that shows it deleted) is never present in that
\* replica's value store afterwards.
C3_DeleteDominance ==
  \A r \in Writers : dels[r] \cap DOMAIN list[r] = {}

\* C4: receive(m) followed immediately by receive(m) leaves the value store,
\* the seen set, the registered bunches and the pending buffer as a single
\* receive(m) leaves them.
C4_ReceiveIdempotent ==
  \A r \in Writers : \A m \in msgs :
    LET once == Receive(ReplicaState(r), m)
    IN Content(Receive(once, m)) = Content(once)

\* A replica has taken a Set that it applied, a Delete, and a Set that it still
\* holds buffered, so that receiving each again meets the seen guard, the
\* tombstone and the bucket.
C4_Witness ==
  \E r \in Writers :
    /\ \E m \in Buffered(pending[r]) : m \in got[r]
    /\ \E m \in applied[r] : bunches[m.startPos.bunchID].creator # r
    /\ \E d \in DeleteMsgs : d \in got[r] /\ MsgPositions(d) \subseteq dels[r] \cap seen[r]

\* C5: a replica that has applied or emitted a Set leaves its value store
\* unchanged when it receives that Set again, whatever happened in between.
C5_ReplayIsNoOp ==
  \A r \in Writers : \A m \in applied[r] :
    Receive(ReplicaState(r), m).list = list[r]

\* A replica has applied a Set of two values and has since deleted one of
\* its positions, which is absent, while the other is still present.
C5_Witness ==
  \E r \in Writers : \E m \in applied[r] :
    /\ Len(m.values) > 1
    /\ \E p \in MsgPositions(m) : p \in dels[r] /\ p \notin DOMAIN list[r]
    /\ \E p \in MsgPositions(m) : p \in DOMAIN list[r]

\* C6: receive completes without error for every message emitted by insertAt
\* or deleteAt, in any order of delivery.
C6_ReceiveNeverThrows == ~threw

\* C7: a replica that emitted no Set and has been handed every message sent
\* has an empty pending buffer and has seen every position of every Set.
C7_NothingStaysBuffered ==
  \A r \in Writers :
    ( /\ got[r] = msgs
      /\ \A m \in SetMsgs : bunches[m.startPos.bunchID].creator # r )
    => /\ pending[r] = <<>>
       /\ \A m \in SetMsgs : MsgPositions(m) \subseteq seen[r]

\* C8: receive of a Set whose meta names an unregistered parent adds the
\* message to the bucket of that parent and changes nothing else.
C8_BufferedSetFrame ==
  \A r \in Writers : \A m \in SetMsgs :
    (m.meta # NoMeta /\ ~IsKnown(known[r], m.meta.parentID))
    => LET s == ReplicaState(r)
           t == Receive(s, m)
       IN /\ m.meta.parentID \in DOMAIN t.pending
          /\ m \in Buffered(t.pending)
          /\ \A b \in DOMAIN s.pending : b # m.meta.parentID => t.pending[b] = s.pending[b]
          /\ t.list = s.list /\ t.seen = s.seen /\ t.known = s.known

\* C9: when a receive applies a Set with meta, every previously buffered Set
\* whose parent is registered when the call returns has been applied (its
\* bunch is registered and its positions are seen) and is no longer buffered,
\* and every Set still buffered has an unregistered parent.
C9_TransitiveUnblocking ==
  \A r \in Writers : \A m \in SetMsgs :
    LET s == ReplicaState(r)
        t == Receive(s, m)
    IN (m.meta # NoMeta /\ ~SeenGuard(s.seen, m) /\ IsKnown(s.known, m.meta.parentID))
       => /\ \A x \in Buffered(s.pending) :
               IsKnown(t.known, x.meta.parentID)
               => /\ IsKnown(t.known, x.meta.bunchID)
                  /\ MsgPositions(x) \subseteq t.seen
                  /\ x \notin Buffered(t.pending)
          /\ \A x \in Buffered(t.pending) : ~IsKnown(t.known, x.meta.parentID)

\* C10: after load(snapshot) on the merge path, every position that the
\* snapshot's source had deleted before save() is absent from the value store.
C10_MergeDeleteDominance ==
  \A r \in Writers :
    LET t == Load(ReplicaState(r), snap)
    IN (snap.taken /\ seen[r] # {} /\ ~t.threw) => snapDels \cap DOMAIN t.list = {}

\* The values save() can return now, and the one kept from an earlier save().
Snapshots ==
  {SavedState(ReplicaState(q)) : q \in Writers} \cup (IF snap.taken THEN {snap} ELSE {})

\* load(a) followed by load(b); the second call is not made when the first throws.
LoadBoth(s, a, b) == IF Load(s, a).threw THEN Load(s, a) ELSE Load(Load(s, a), b)

\* C11: for a replica with a non-empty seen set and two snapshots a and b,
\* load(a) then load(b) leaves the same value store and seen set as load(b)
\* then load(a).
C11_MergeCommutative ==
  \A r \in Writers : \A a, b \in Snapshots :
    LET ab == LoadBoth(ReplicaState(r), a, b)
        ba == LoadBoth(ReplicaState(r), b, a)
    IN (seen[r] # {} /\ ~ab.threw /\ ~ba.threw)
       => ab.list = ba.list /\ ab.seen = ba.seen

\* C12: load(s) followed by load(s) leaves the same value store, seen set and
\* registered bunches as a single load(s), and loading a replica's own save()
\* leaves its state unchanged.
C12_MergeIdempotent ==
  \A r \in Writers :
    /\ \A a \in Snapshots :
         LET once == Load(ReplicaState(r), a)
             twice == LoadBoth(ReplicaState(r), a, a)
         IN ~twice.threw => Content(twice) = Content(once)
    /\ LET own == Load(ReplicaState(r), SavedState(ReplicaState(r)))
       IN ~own.threw => Content(own) = Content(ReplicaState(r))

\* C13: after two replicas each load the snapshot the other took before either
\* load, both return equal slices, holding every element that was present at
\* either replica and deleted at neither.
C13_MutualMergeConverges ==
  \A r, q \in Writers :
    LET r2 == Load(ReplicaState(r), SavedState(ReplicaState(q)))
        q2 == Load(ReplicaState(q), SavedState(ReplicaState(r)))
    IN (r # q /\ ~r2.threw /\ ~q2.threw)
       => /\ SliceOf(r2.list) = SliceOf(q2.list)
          /\ DOMAIN r2.list = ((DOMAIN list[r]) \cup (DOMAIN list[q])) \ (dels[r] \cup dels[q])

\* Has replica a applied every message that replica b has received or emitted?
AppliedAll(a, b) ==
  \A m \in got[b] \cup Buffered(pending[b]) :
    IF m.type = "set" THEN m \in applied[a] ELSE m \in got[a]

\* C14: if replica a has applied every message that replica b has received or
\* emitted, then after b.load(a.save()) b.slice() equals a.slice(), also when b
\* holds buffered Sets.
C14_MergeAgreesWithDelivery ==
  \A a, b \in Writers :
    LET b2 == Load(ReplicaState(b), SavedState(ReplicaState(a)))
    IN (a # b /\ AppliedAll(a, b) /\ ~b2.threw) => SliceOf(b2.list) = Slice(a)

\* C15: for a replica f whose seen set is empty and any replica r, after
\* f.load(r.save()) f has the slice, the seen set and the registered bunches
\* that r had at save().
C15_FastPathRoundTrip ==
  \A f \in Replicas : \A r \in Writers :
    seen[f] = {}
    => LET t == Load(ReplicaState(f), SavedState(ReplicaState(r)))
       IN /\ ~t.threw
          /\ SliceOf(t.list) = Slice(r)
          /\ t.seen = seen[r]
          /\ t.known = known[r]

\* A replica that has applied no message holds the content of the snapshot it
\* loaded: a tombstone, and a present Position that the snapshot's seen set lacks.
C15_Witness ==
  \E f \in Writers :
    /\ snap.taken /\ applied[f] = {}
    /\ list[f] = snap.list /\ seen[f] = snap.seen /\ known[f] = snap.order
    /\ snap.seen \ DOMAIN snap.list # {}
    /\ (DOMAIN snap.list) \ snap.seen # {}

\* The messages a replica has emitted or applied.
Reflected(q) == applied[q] \cup {m \in got[q] : m.type = "delete"}

\* C16: after a replica loads a snapshot, receiving any message that the
\* snapshot's source had emitted or applied before save() leaves the loading
\* replica's slice unchanged.
C16_SnapshotMessagesRedundant ==
  \A r \in Replicas : \A q \in Writers : \A m \in Reflected(q) :
    LET t == Load(ReplicaState(r), SavedState(ReplicaState(q)))
    IN ~t.threw => SliceOf(Receive(t, m).list) = SliceOf(t.list)

\* C17: if replica r holds buffered Sets waiting on a bunch and a fresh replica
\* f loads r.save(), then after both receive the Set that brings the missing
\* bunch, f.slice() equals r.slice().
C17_BufferRemembered ==
  \A r \in Writers : \A f \in Replicas : \A m \in SetMsgs :
    LET r2 == Receive(ReplicaState(r), m)
        f2 == Receive(Load(ReplicaState(f), SavedState(ReplicaState(r))), m)
    IN ( /\ f # r
         /\ seen[f] = {} /\ pending[f] = <<>> /\ known[f] = {} /\ list[f] = <<>>
         /\ m.meta # NoMeta /\ m.meta.bunchID \in DOMAIN pending[r]
         /\ ~r2.threw /\ ~f2.threw )
       => SliceOf(f2.list) = SliceOf(r2.list)

\* C18: if replicas r and q hold the same value store and the same registered
\* bunches, r performs an insertAt or deleteAt, and q then receives the emitted
\* message, then q.slice() equals r.slice().
C18_CausalDelivery ==
  [][\A r, q \in Writers : \A m \in msgs' :
       ( /\ r # q
         /\ list[r] = list[q] /\ known[r] = known[q]
         /\ nins' # nins \/ ndel' # ndel
         /\ m \notin got[r] /\ m \in got'[r] )
       => ( /\ ~Receive(ReplicaState(q), m).threw
            /\ SliceOf(Receive(ReplicaState(q), m).list) = Slice(r) )' ]_vars

\* Two replicas hold the same non-empty value store after one received, in
\* order, a Set of two values and a Delete that the other emitted.
C18_Witness ==
  \E r, q \in Writers :
    /\ r # q /\ list[r] = list[q] /\ list[r] # <<>> /\ got[r] = got[q]
    /\ \E m \in applied[q] : bunches[m.startPos.bunchID].creator = r /\ Len(m.values) = 2
    /\ \E d \in DeleteMsgs : d \in got[q] /\ bunches[d.poss[1].bunchID].creator = r

\* C19: every position present in a replica's value store is in its seen set.
C19_PresentImpliesSeen ==
  \A r \in Replicas : DOMAIN list[r] \subseteq seen[r]

\* C20: insertAt(index, values) with n >= 1 values and 0 <= index <= length
\* places the values at indices index..index+n-1, marks the n new positions
\* seen, and emits one Set whose startPos is the first new position, whose
\* values are the inserted values, and whose meta is present exactly when a new
\* bunch was allocated.
C20_InsertAtPostcondition ==
  [][\A r \in Writers : \A index \in 0..MaxIndex : \A count \in 1..MaxVals :
       InsertAt(r, index, count)
       => \E m \in msgs' :
            /\ m \notin msgs /\ msgs' = msgs \cup {m}
            /\ m.type = "set" /\ Len(m.values) = count
            /\ (Slice(r))' = SubSeq(Slice(r), 1, index) \o m.values
                               \o SubSeq(Slice(r), index + 1, Len(Slice(r)))
            /\ m.startPos = (Positions(list[r]))'[index + 1]
            /\ MsgPositions(m) \cap {AllPositions[k] : k \in 1..Len(AllPositions)} = {}
            /\ (m.meta # NoMeta) <=> (Len(bunches') > Len(bunches))
            /\ m.meta # NoMeta => m.meta.bunchID = m.startPos.bunchID
            /\ MsgPositions(m) \subseteq seen'[r] ]_vars

\* C21: every operation on a replica (insertAt, deleteAt, receive, load on
\* either path) leaves its seen set a superset of what it was.
C21_SeenOnlyGrows ==
  [][\A r \in Replicas : seen[r] \subseteq seen'[r]]_vars

\* A replica holds in its seen set the Positions of a Delete it received, the
\* start of a Set it emitted, and a Position it got by merging a snapshot.
C21_Witness ==
  \E r \in Writers :
    /\ \E d \in DeleteMsgs :
         /\ d \in got[r] /\ MsgPositions(d) \subseteq seen[r]
         /\ \A p \in MsgPositions(d) : bunches[p.bunchID].creator # r
    /\ \E m \in applied[r] : bunches[m.startPos.bunchID].creator = r
    /\ \E p \in seen[r] :
         \A m \in (applied[r] \cup got[r]) \cap SetMsgs : p \notin MsgPositions(m)

C23_DeleteAtPostcondition ==
  [][\A r \in Writers : \A index \in 0..MaxIndex : \A count \in 1..MaxVals :
       (ndel' # ndel /\ DeleteAt(r, index, count))
       => LET old == Slice(r)
              poss == SubSeq(Positions(list[r]), index + 1, index + count)
          IN /\ (Slice(r))' = SubSeq(old, 1, index) \o SubSeq(old, index + count + 1, Len(old))
             /\ DOMAIN list'[r] = (DOMAIN list[r]) \ {poss[k] : k \in 1..count}
             /\ \E m \in msgs' :
                  /\ msgs' = msgs \cup {m} /\ got'[r] = got[r] \cup {m}
                  /\ m.type = "delete" /\ m.poss = poss
             /\ seen'[r] = seen[r] /\ known'[r] = known[r] /\ pending'[r] = pending[r] ]_vars

\* A replica has emitted a Delete of two positions, both absent from its value
\* store, which still holds other elements.
C23_Witness ==
  \E r \in Writers : \E d \in DeleteMsgs :
    /\ d \in got[r] /\ Len(d.poss) = 2
    /\ \A p \in MsgPositions(d) : bunches[p.bunchID].creator = r /\ p \notin DOMAIN list[r]
    /\ MsgPositions(d) \subseteq dels[r]
    /\ list[r] # <<>>

\* C25: a replica with seen set S and present set P that loads, on the merge
\* path, a snapshot with seen set S2 and present set P2 ends with the present
\* set (P \ (S2 \ P2)) \cup (P2 \ S) and the seen set S \cup S2; the positions of
\* P2 \ S carry the snapshot's value, the values of the other present
\* positions are unchanged, and a position locally seen but absent stays absent.
C25_MergePathResult ==
  \A r \in Writers : \A sv \in Snapshots :
    LET t == Load(ReplicaState(r), sv)
        S == seen[r]
        P == DOMAIN list[r]
        S2 == sv.seen
        P2 == DOMAIN sv.list
    IN (S # {} /\ ~t.threw)
       => /\ DOMAIN t.list = (P \ (S2 \ P2)) \cup (P2 \ S)
          /\ t.seen = S \cup S2
          /\ \A p \in (DOMAIN t.list) \cap (P2 \ S) : t.list[p] = sv.list[p]
          /\ \A p \in (DOMAIN t.list) \cap P : t.list[p] = list[r][p]
          /\ \A p \in S \ P : p \notin DOMAIN t.list

\* C26: after receive of a Delete every position it names is seen; a named
\* position that was present is removed and nothing else is; the registered
\* bunches and the pending buffer are unchanged, also when a named position's
\* bunch is not registered, and the call does not throw.
C26_ReceiveDelete ==
  \A r \in Replicas : \A d \in DeleteMsgs :
    LET t == Receive(ReplicaState(r), d)
    IN /\ ~t.threw
       /\ t.seen = seen[r] \cup MsgPositions(d)
       /\ DOMAIN t.list = (DOMAIN list[r]) \ MsgPositions(d)
       /\ \A p \in DOMAIN t.list : t.list[p] = list[r][p]
       /\ t.known = known[r]
       /\ t.pending = pending[r]

\* A replica has received a Delete naming a position of a bunch it has not
\* registered, now seen, and a position of a Set it had applied, now absent.
C26_Witness ==
  \E r \in Writers : \E d \in DeleteMsgs :
    /\ d \in got[r]
    /\ \E p \in MsgPositions(d) : ~IsKnown(known[r], p.bunchID) /\ p \in seen[r]
    /\ \E p \in MsgPositions(d) : \E m \in applied[r] :
         /\ p \in MsgPositions(m) /\ p \notin DOMAIN list[r]
         /\ bunches[p.bunchID].creator # r

\* C27: load on the merge path completes without error for every snapshot
\* that save() can return, also one whose seen set holds positions of bunches
\* its order does not register, and afterwards every position of the
\* snapshot's seen set is seen locally.
C27_MergeAcceptsEverySnapshot ==
  \A r \in Writers : \A sv \in Snapshots :
    LET t == Load(ReplicaState(r), sv)
    IN seen[r] # {} => (~t.threw /\ sv.seen \subseteq t.seen)

\* C28: at every replica the parent of every registered bunch is registered,
\* and every position that is present in the value store, or that a Set is
\* about to write into it (line 145), belongs to a registered bunch.
C28_MetadataClosure ==
  \A r \in Replicas :
    /\ \A b \in known[r] : IsKnown(known[r], bunches[b].parentID)
    /\ \A p \in DOMAIN list[r] : IsKnown(known[r], p.bunchID)
    /\ \A m \in SetMsgs : ~Receive(ReplicaState(r), m).threw

\* C29: a position present at two replicas holds the same value at both, and
\* the value at a present position of a replica does not change while the
\* position stays present.
C29_ValuesAgree ==
  /\ [](\A r, q \in Replicas : \A p \in (DOMAIN list[r]) \cap (DOMAIN list[q]) :
          list[r][p] = list[q][p])
  /\ [][\A r \in Replicas : \A p \in (DOMAIN list[r]) \cap (DOMAIN list'[r]) :
          list'[r][p] = list[r][p]]_vars

\* Two replicas hold the same two positions with their values: one wrote them
\* by insertAt, the other got them from a snapshot on the merge path.
C29_Witness ==
  \E r, q \in Writers :
    /\ r # q
    /\ \E m \in applied[r] : bunches[m.startPos.bunchID].creator = r
    /\ \E m \in applied[q] :
         /\ bunches[m.startPos.bunchID].creator = q
         /\ m \notin got[r] /\ m.startPos \in DOMAIN list[r] /\ m.startPos \in DOMAIN list[q]
    /\ Cardinality((DOMAIN list[r]) \cap (DOMAIN list[q])) >= 2

\* C30: in one receive call the unblocking cascade reprocesses each buffered
\* message at most once, leaves no bucket under a bunch whose bucket it
\* drained, and reprocesses only messages that were buffered when the call
\* began.
C30_CascadeBounded ==
  \A r \in Writers : \A m \in msgs :
    LET t == Receive(ReplicaState(r), m)
        n == Len(t.reprocessed)
    IN /\ \A i, j \in 1..n : i # j => t.reprocessed[i] # t.reprocessed[j]
       /\ t.drained \cap DOMAIN t.pending = {}
       /\ \A i \in 1..n : t.reprocessed[i] \in Buffered(pending[r])
       /\ n <= Cardinality(Buffered(pending[r]))

\* A replica holds two buckets whose Sets form a chain, and a sent Set whose
\* receive drains both buckets, one after the other.
C30_Witness ==
  \E r \in Writers : \E m \in SetMsgs :
    LET t == Receive(ReplicaState(r), m)
    IN /\ Cardinality(DOMAIN pending[r]) = 2
       /\ Cardinality(t.drained) = 2
       /\ Len(t.reprocessed) = 2
       /\ t.pending = <<>>

C32_MessageEmission ==
  [][ /\ nins' # nins
         => \E r \in Writers : \E m \in msgs' :
              /\ m \notin msgs /\ msgs' = msgs \cup {m} /\ got'[r] = got[r] \cup {m}
              /\ m.type = "set"
              /\ MsgPositions(m) \subseteq DOMAIN list'[r]
              /\ MsgPositions(m) \subseteq seen'[r]
      /\ ndel' # ndel
         => \E r \in Writers : \E m \in msgs' :
              /\ msgs' = msgs \cup {m} /\ got'[r] = got[r] \cup {m}
              /\ m.type = "delete"
              /\ MsgPositions(m) \cap DOMAIN list'[r] = {}
      /\ (nins' = nins /\ ndel' = ndel) => msgs' = msgs
      /\ \A r \in Replicas : Save(r) => UNCHANGED <<known, list, seen, pending, msgs>> ]_vars

====
